---- MODULE Spec2Model ----
(***************************************************************************)
(* State-machine model of src/server.js: an Express application over a     *)
(* Firestore document store (site/profile, site/schedule, inquiries), a    *)
(* username/password login that mints a 7-day JWT, five JWT-protected      *)
(* admin routes, and a public inquiry route that stores the inquiry and    *)
(* then dispatches an email and a Telegram message.                        *)
(*                                                                         *)
(* Strings are sequences of one-character strings, so that trim() is a     *)
(* computation.  JavaScript values are tagged records.                     *)
(***************************************************************************)
EXTENDS Integers, Sequences, FiniteSets, TLC

VARIABLES
    env,        \* process.env, fixed at process start
    now,        \* the wall clock read by new Date() and by jsonwebtoken
    issued,     \* every token a login has returned so far
    profile,    \* Firestore document site/profile
    schedule,   \* Firestore document site/schedule
    inquiries,  \* Firestore collection inquiries (a set of documents with ids)
    reqs,       \* the POST /api/public/inquiry requests in flight, by slot
    everPut,    \* history: some PUT /api/admin/profile has answered 200
    last        \* the step just taken: the request and the response it got

vars == <<env, now, issued, profile, schedule, inquiries, reqs, everPut, last>>

----------------------------------------------------------------------------
(* Bounds of the model *)

MaxTime == 7            \* clock ticks explored where tokens expire
MaxInquiryTime == 1     \* clock ticks explored where inquiries are listed
MaxLoginTime == 0       \* the last clock tick at which a login succeeds
MaxSlots == 2           \* inquiry requests in flight at once
MaxInquiries == 2       \* inquiries submitted in one behaviour
MaxStored == 101        \* inquiries already in the store when listing
MaxItems == 2           \* length of a schedule item list in a request

(* Program constants *)

TokenTTL == 7           \* expiresIn: "7d", one clock tick standing for a day
DefaultLimit == 25
LimitCap == 100
BcryptSaltRounds == 10

----------------------------------------------------------------------------
(* JavaScript values *)

Undef == [t |-> "undefined"]
Null == [t |-> "null"]
NaN == [t |-> "nan"]
Str(s) == [t |-> "string", v |-> s]
Num(n) == [t |-> "number", v |-> n]
Obj(o) == [t |-> "object", v |-> o]
Arr(a) == [t |-> "array", v |-> a]

\* JavaScript truthiness, as `x || ""` uses it
Truthy(x) ==
    CASE x.t = "undefined" -> FALSE
      [] x.t = "null" -> FALSE
      [] x.t = "nan" -> FALSE
      [] x.t = "string" -> x.v # <<>>
      [] x.t = "number" -> x.v # 0
      [] OTHER -> TRUE

\* x || ""
OrEmpty(x) == IF Truthy(x) THEN x ELSE Str(<<>>)

Digits == <<"0", "1", "2", "3", "4", "5", "6", "7", "8", "9">>

RECURSIVE NumberToString(_)
NumberToString(n) ==
    IF n < 10 THEN <<Digits[n + 1]>>
    ELSE NumberToString(n \div 10) \o <<Digits[(n % 10) + 1]>>

\* String(x), for the values a JSON body can hold after `|| ""`
JsString(x) ==
    CASE x.t = "string" -> x.v
      [] x.t = "number" -> NumberToString(x.v)
      [] x.t = "undefined" -> <<"u", "n", "d", "e", "f", "i", "n", "e", "d">>
      [] x.t = "null" -> <<"n", "u", "l", "l">>
      [] x.t = "nan" -> <<"N", "a", "N">>
      [] OTHER -> <<"[", "o", "]">>

RECURSIVE TrimLeft(_)
TrimLeft(s) ==
    IF s # <<>> /\ Head(s) = " " THEN TrimLeft(Tail(s)) ELSE s

RECURSIVE TrimRight(_)
TrimRight(s) ==
    IF s # <<>> /\ s[Len(s)] = " " THEN TrimRight(SubSeq(s, 1, Len(s) - 1)) ELSE s

\* String.prototype.trim
Trim(s) == TrimRight(TrimLeft(s))

\* String(x || "").trim(), the normalisation of every text field
StrField(x) == Trim(JsString(OrEmpty(x)))

\* String(x || ""), without the trim (the login password)
RawField(x) == JsString(OrEmpty(x))

DigitValue(c) == CHOOSE d \in 0..9 : Digits[d + 1] = c

IsDigit(c) == \E d \in 1..10 : Digits[d] = c

RECURSIVE DigitsToNat(_)
DigitsToNat(s) ==
    IF s = <<>> THEN 0
    ELSE 10 * DigitsToNat(SubSeq(s, 1, Len(s) - 1)) + DigitValue(s[Len(s)])

AllDigits(s) == s # <<>> /\ \A i \in 1..Len(s) : IsDigit(s[i])

\* Number(s) of a string: blank is 0, an optionally signed run of digits is
\* its value, anything else is NaN
StringToNumber(s) ==
    IF s = <<>> THEN Num(0)
    ELSE IF AllDigits(s) THEN Num(DigitsToNat(s))
    ELSE IF Head(s) = "-" /\ AllDigits(Tail(s)) THEN Num(0 - DigitsToNat(Tail(s)))
    ELSE IF Head(s) = "+" /\ AllDigits(Tail(s)) THEN Num(DigitsToNat(Tail(s)))
    ELSE NaN

\* Number(x)
ToNumber(x) ==
    CASE x.t = "number" -> x
      [] x.t = "null" -> Num(0)
      [] x.t = "string" -> StringToNumber(Trim(x.v))
      [] OTHER -> NaN

\* body.f, undefined when the body has no such key
Field(body, f) == IF f \in DOMAIN body THEN body[f] ELSE Undef

----------------------------------------------------------------------------
(* process.env *)

\* requireEnv(name) throws: the setting is unset or empty.  SMTP stands for
\* SMTP_HOST, SMTP_PORT, SMTP_USER, SMTP_PASS and MASTER_EMAIL_TO together,
\* TELEGRAM for TELEGRAM_BOT_TOKEN and TELEGRAM_CHAT_ID
EnvMissing(name) == env[name] = ""

\* The secrets an outsider can sign with; never the server's own
ForeignSecret == "guess"

EnvChoices ==
    [JWT_SECRET : {"", "s3cret"},
     ADMIN_USERNAME : {<<>>, <<"a", "d", " ">>},
     ADMIN_PASSWORD : {<<>>, <<"p", "w">>},
     SMTP : {"", "set"},
     TELEGRAM : {"", "set"}]

\* ADMIN_USERNAME, as line 169 reads it (trimmed)
ADMIN_USERNAME == Trim(env.ADMIN_USERNAME)

\* bcrypt.hashSync(pw, rounds): one-way, and blind past the 72nd byte
BcryptHash(pw, rounds) ==
    [alg |-> "bcrypt", rounds |-> rounds,
     of |-> SubSeq(pw, 1, IF Len(pw) < 72 THEN Len(pw) ELSE 72)]

\* Line 174: null when ADMIN_PASSWORD is unset

ADMIN_PASSWORD_HASH ==
    IF env.ADMIN_PASSWORD # <<>>
    THEN BcryptHash(env.ADMIN_PASSWORD, BcryptSaltRounds)
    ELSE Null

\* The comparison left unawaited: a pending promise is truthy
BcryptCompareUnawaited(pw, hash) == TRUE

\* await bcrypt.compare(password, hash)
BcryptCompare(pw, hash) == hash = BcryptHash(pw, hash.rounds)

----------------------------------------------------------------------------
(* Session tokens *)

\* HMAC of a payload under a secret: equal only for equal payload and secret
Hmac(payload, secret) == [p |-> payload, k |-> secret]

NoToken == [kind |-> "none"]        \* header.slice(7) never ran: token = null
EmptyToken == [kind |-> "empty"]    \* "Bearer " followed by nothing
Jwt(payload, sig) == [kind |-> "jwt", payload |-> payload, sig |-> sig]

\* jwt.sign(payload, secret, { expiresIn: "7d" })
JwtSign(payload, secret) ==
    LET claims == [role |-> payload.role, username |-> payload.username,
                   iat |-> now, exp |-> now + TokenTTL]
    IN Jwt(claims, Hmac(claims, secret))

\* signToken(payload)
signToken(payload) == JwtSign(payload, env.JWT_SECRET)

\* jwt.verify(token, secret) returns the payload (TRUE) or throws (FALSE)
JwtVerify(token, secret) ==
    /\ token.kind = "jwt"
    /\ token.sig = Hmac(token.payload, secret)
    /\ now < token.payload.exp

\* The Authorization header of a request
NoHeader == [scheme |-> "", rest |-> NoToken]
BasicHeader == [scheme |-> "Basic ", rest |-> EmptyToken]
Bearer(tok) == [scheme |-> "Bearer ", rest |-> tok]

\* header.startsWith("Bearer ") ? header.slice(7) : null
HeaderToken(header) == IF header.scheme = "Bearer " THEN header.rest ELSE NoToken

\* The middleware with jwt.decode in place of jwt.verify: neither the
\* signature nor the expiry is looked at
authMiddlewareDecodeOnly(header) ==
    LET token == HeaderToken(header) IN
    IF token.kind \in {"none", "empty"}
    THEN [ok |-> FALSE, status |-> 401, body |-> [error |-> "Missing token"]]
    ELSE [ok |-> TRUE, status |-> 200, body |-> [user |-> token.payload]]

\* authMiddleware: next() is called (ok), or a 401 is sent
authMiddleware(header) ==
    LET token == HeaderToken(header) IN
    IF token.kind \in {"none", "empty"}
    THEN [ok |-> FALSE, status |-> 401, body |-> [error |-> "Missing token"]]
    ELSE IF ~EnvMissing("JWT_SECRET") /\ JwtVerify(token, env.JWT_SECRET)
         THEN [ok |-> TRUE, status |-> 200, body |-> [user |-> token.payload]]
         ELSE [ok |-> FALSE, status |-> 401, body |-> [error |-> "Invalid token"]]

\* What a client can put after "Bearer ": a token a login returned, one of
\* those with its signature or its claims altered, or one signed with a
\* secret that is not the server's
Tampered(t) ==
    { Jwt(t.payload, Hmac(t.payload, ForeignSecret)),
      Jwt([t.payload EXCEPT !.exp = t.payload.exp + TokenTTL], t.sig),
      Jwt([t.payload EXCEPT !.role = "owner"], t.sig) }

Forged ==
    LET claims == [role |-> "admin", username |-> ADMIN_USERNAME,
                   iat |-> now, exp |-> now + TokenTTL]
    IN Jwt(claims, Hmac(claims, ForeignSecret))

Headers ==
    {NoHeader, BasicHeader, Bearer(EmptyToken), Bearer(Forged)}
        \cup {Bearer(t) : t \in issued}
        \cup {Bearer(u) : u \in UNION {Tampered(t) : t \in issued}}

----------------------------------------------------------------------------
(* Responses *)

\* The record of a step: the route, the Authorization header and the input
\* of the request, the status and body answered (status 0: none sent), and
\* the document-store call the handler made
Step(op, auth, req, status, body, store) ==
    [op |-> op, auth |-> auth, req |-> req, status |-> status, body |-> body,
     store |-> store]

NoReq == [none |-> TRUE]

OkBody == [ok |-> TRUE]

----------------------------------------------------------------------------
(* The document store *)

EmptyObject == [f \in {} |-> Undef]

Absent == [exists |-> FALSE, data |-> EmptyObject]

\* new Date().toISOString(): ISO-8601 strings order as their instants do
IsoDate(t) == [t |-> "isodate", v |-> t]

\* ref.set(payload, { merge: true }): the fields of the payload overwrite,
\* every other field of the stored document persists
SetMerge(doc, payload) ==
    [exists |-> TRUE,
     data |-> [f \in (DOMAIN doc.data) \cup (DOMAIN payload) |->
                  IF f \in DOMAIN payload THEN payload[f] ELSE doc.data[f]]]

\* The order of orderBy("createdAt") without "desc"
ListedBeforeAscending(d, e) ==
    \/ d.data.createdAt.v < e.data.createdAt.v
    \/ d.data.createdAt.v = e.data.createdAt.v /\ d.id < e.id

\* How Firestore orders two inquiries under orderBy("createdAt", "desc"):
\* later createdAt first, equal createdAt by document id, also descending
ListedBefore(d, e) ==
    \/ d.data.createdAt.v > e.data.createdAt.v
    \/ d.data.createdAt.v = e.data.createdAt.v /\ d.id > e.id

\* inquiriesCol.orderBy("createdAt", "desc").limit(n).get(), as snap.docs
OrderByCreatedAtDescLimit(col, n) ==
    LET rank == [d \in col |-> Cardinality({e \in col : ListedBefore(e, d)})]
        k == IF n < Cardinality(col) THEN n ELSE Cardinality(col)
    IN [i \in 1..k |-> CHOOSE d \in col : rank[d] = i - 1]

----------------------------------------------------------------------------
(* Public routes *)

DefaultName == <<"M", "r", " ", "S", "p", "o", "r", "t">>
DefaultBio == <<"w", "r", "i", "t", "e", " ", "a", " ", "b", "i", "o">>
Dash == <<"-">>

\* The literal of lines 121-128
DefaultProfile ==
    [name |-> DefaultName, bio |-> DefaultBio, place |-> Dash, phone |-> Dash,
     age |-> Null, photoUrl |-> <<>>]

\* The public route answering as the admin route does: {} when absent
PublicGetProfileRaw ==
    /\ last' = Step("GET /api/public/profile", NoHeader, NoReq, 200,
                    IF ~profile.exists THEN EmptyObject ELSE profile.data,
                    "read")
    /\ UNCHANGED <<env, now, issued, profile, schedule, inquiries, reqs, everPut>>

\* GET /api/public/profile
PublicGetProfile ==
    /\ last' = Step("GET /api/public/profile", NoHeader, NoReq, 200,
                    IF ~profile.exists THEN DefaultProfile ELSE profile.data,
                    "read")
    /\ UNCHANGED <<env, now, issued, profile, schedule, inquiries, reqs, everPut>>

\* snap.exists ? snap.data() : { items: [] }
ScheduleOrEmpty == IF schedule.exists THEN schedule.data ELSE [items |-> <<>>]

\* GET /api/public/schedule
PublicGetSchedule ==
    /\ last' = Step("GET /api/public/schedule", NoHeader, NoReq, 200,
                    ScheduleOrEmpty, "read")
    /\ UNCHANGED <<env, now, issued, profile, schedule, inquiries, reqs, everPut>>

----------------------------------------------------------------------------
(* POST /api/public/inquiry, one step per stretch between two awaits *)

NoData == [none |-> TRUE]

Idle ==
    [pc |-> "idle", data |-> NoData, id |-> 0,
     email |-> "notstarted", telegram |-> "notstarted",
     emailCalls |-> 0, telegramCalls |-> 0]

\* Lines 139-142 and 148-149: the document built from the body
InquiryDoc(body) ==
    [name |-> StrField(Field(body, "name")),
     email |-> StrField(Field(body, "email")),
     phone |-> StrField(Field(body, "phone")),
     message |-> StrField(Field(body, "message")),
     createdAt |-> IsoDate(now)]

\* The check with the message left out
InquiryInvalidNoMessage(doc) == doc.name = <<>> \/ doc.email = <<>>

\* Line 144: !name || !email || !message
InquiryInvalid(doc) == doc.name = <<>> \/ doc.email = <<>> \/ doc.message = <<>>

\* A response that lets a failed dispatch through as 502
InquiryResponseLeaky(r, slot) ==
    Step("POST /api/public/inquiry", NoHeader,
         [id |-> slot.id, data |-> slot.data,
          email |-> slot.email, telegram |-> slot.telegram,
          emailCalls |-> slot.emailCalls, telegramCalls |-> slot.telegramCalls],
         IF "failed" \in {slot.email, slot.telegram} THEN 502 ELSE 200,
         IF "failed" \in {slot.email, slot.telegram}
         THEN [error |-> "notification failed"] ELSE OkBody,
         "none")

\* Line 165, and what the request went through before it
InquiryResponse(r, slot) ==
    Step("POST /api/public/inquiry", NoHeader,
         [id |-> slot.id, data |-> slot.data,
          email |-> slot.email, telegram |-> slot.telegram,
          emailCalls |-> slot.emailCalls, telegramCalls |-> slot.telegramCalls],
         200, OkBody, "none")

InquiryProgress(r, slot) ==
    Step("inquiry in flight", NoHeader, [pc |-> slot.pc], 0,
         NoData, "none")

\* Line 163: sendTelegram is called; with no TELEGRAM_* it throws at once and
\* the catch leads on to the response, otherwise the fetch is awaited
CallTelegram(slot) ==
    IF EnvMissing("TELEGRAM")
    THEN [slot EXCEPT !.pc = "respond", !.telegram = "unconfigured",
                      !.telegramCalls = @ + 1]
    ELSE [slot EXCEPT !.pc = "telegram", !.telegram = "inflight",
                      !.telegramCalls = @ + 1]

\* Line 162: sendEmail is called; with no SMTP_* it throws at once and the
\* catch leads on to line 163, otherwise sendMail is awaited
CallEmail(slot) ==
    IF EnvMissing("SMTP")
    THEN CallTelegram([slot EXCEPT !.email = "unconfigured", !.emailCalls = @ + 1])
    ELSE [slot EXCEPT !.pc = "email", !.email = "inflight", !.emailCalls = @ + 1]

\* The handler runs on to its next await, or to its response
Continue(r, slot) ==
    IF slot.pc = "respond"
    THEN /\ reqs' = [reqs EXCEPT ![r] = Idle]
         /\ last' = InquiryResponse(r, slot)
    ELSE /\ reqs' = [reqs EXCEPT ![r] = slot]
         /\ last' = InquiryProgress(r, slot)

Submitted == Cardinality(inquiries) + Cardinality({r \in DOMAIN reqs : reqs[r].pc = "adding"})

\* Lines 138-151: the request arrives; a 400, or the document is built with
\* the clock's reading and inquiriesCol.add is awaited
InquiryReceive(r, body) ==
    /\ reqs[r].pc = "idle"
    /\ \A q \in DOMAIN reqs : q < r => reqs[q].pc # "idle"
    /\ LET doc == InquiryDoc(body) IN
       IF InquiryInvalid(doc)
       THEN /\ last' = Step("POST /api/public/inquiry", NoHeader,
                            [body |-> body, data |-> doc],
                            400, [error |-> "name, email, message are required"],
                            "none")
            /\ UNCHANGED reqs
       ELSE /\ Submitted < MaxInquiries
            /\ Continue(r, [Idle EXCEPT !.pc = "adding", !.data = doc])
    /\ UNCHANGED <<env, now, issued, profile, schedule, inquiries, everPut>>

\* Line 151 completes: the store assigns an id and holds the document; the
\* handler goes on to line 162
InquiryAdd(r) ==
    /\ reqs[r].pc = "adding"
    /\ \E id \in (1..MaxInquiries) \ {d.id : d \in inquiries} :
          /\ inquiries' = inquiries \cup {[id |-> id, data |-> reqs[r].data]}
          /\ Continue(r, CallEmail([reqs[r] EXCEPT !.id = id]))
    /\ UNCHANGED <<env, now, issued, profile, schedule, everPut>>

\* The rejection of sendMail escaping its catch: line 163 is skipped
EmailSettleEscapes(r, outcome) ==
    /\ reqs[r].pc = "email"
    /\ IF outcome = "failed"
       THEN Continue(r, [reqs[r] EXCEPT !.pc = "respond", !.email = outcome])
       ELSE Continue(r, CallTelegram([reqs[r] EXCEPT !.email = outcome]))
    /\ UNCHANGED <<env, now, issued, profile, schedule, inquiries, everPut>>

\* transporter.sendMail settles; resolved or rejected, line 163 is next
EmailSettle(r, outcome) ==
    /\ reqs[r].pc = "email"
    /\ Continue(r, CallTelegram([reqs[r] EXCEPT !.email = outcome]))
    /\ UNCHANGED <<env, now, issued, profile, schedule, inquiries, everPut>>

\* fetch settles (resolved ok, resolved not ok, or rejected); line 165 is next
TelegramSettle(r, outcome) ==
    /\ reqs[r].pc = "telegram"
    /\ Continue(r, [reqs[r] EXCEPT !.pc = "respond", !.telegram = outcome])
    /\ UNCHANGED <<env, now, issued, profile, schedule, inquiries, everPut>>

EmailOutcomes == {"sent", "failed"}
TelegramOutcomes == {"sent", "failed"}

----------------------------------------------------------------------------
(* POST /api/auth/login *)

InvalidCredentials == [error |-> "Invalid credentials"]

\* Lines 178-195.  signToken throws when JWT_SECRET is unset: the async
\* handler rejects and no response is sent (status 0)
Login(body) ==
    LET username == StrField(Field(body, "username"))
        password == RawField(Field(body, "password"))
        token == signToken([role |-> "admin", username |-> username])
        req == [username |-> Field(body, "username"),
                password |-> Field(body, "password")]
        op == "POST /api/auth/login"
    IN
    /\ IF ADMIN_USERNAME = <<>> \/ ADMIN_PASSWORD_HASH = Null
       THEN /\ last' = Step(op, NoHeader, req, 500,
                            [error |-> "Admin env not configured"], "none")
            /\ UNCHANGED issued
       ELSE IF username # ADMIN_USERNAME
       THEN /\ last' = Step(op, NoHeader, req, 401, InvalidCredentials, "none")
            /\ UNCHANGED issued
       ELSE IF ~BcryptCompare(password, ADMIN_PASSWORD_HASH)
       THEN /\ last' = Step(op, NoHeader, req, 401, InvalidCredentials, "none")
            /\ UNCHANGED issued
       ELSE IF EnvMissing("JWT_SECRET")
       THEN /\ last' = Step(op, NoHeader, req, 0, NoData, "none")
            /\ UNCHANGED issued
       ELSE /\ now <= MaxLoginTime
            /\ issued' = issued \cup {token}
            /\ last' = Step(op, NoHeader, req, 200, [token |-> token], "none")
    /\ UNCHANGED <<env, now, profile, schedule, inquiries, reqs, everPut>>

----------------------------------------------------------------------------
(* Admin routes, each behind authMiddleware *)

\* The 401 of authMiddleware: the route handler never runs
Rejected(op, header, req) ==
    last' = Step(op, header, req, 401, authMiddleware(header).body, "none")

\* GET /api/admin/profile
AdminGetProfile(header) ==
    /\ IF ~authMiddleware(header).ok
       THEN Rejected("GET /api/admin/profile", header, NoReq)
       ELSE last' = Step("GET /api/admin/profile", header, NoReq, 200,
                         IF profile.exists THEN profile.data ELSE EmptyObject,
                         "read")
    /\ UNCHANGED <<env, now, issued, profile, schedule, inquiries, reqs, everPut>>

\* Line 210
AgeField(x) == IF x = Null \/ x = Str(<<>>) THEN Null ELSE ToNumber(x)

\* Lines 204-212
ProfilePayload(body) ==
    [name |-> StrField(Field(body, "name")),
     bio |-> StrField(Field(body, "bio")),
     place |-> StrField(Field(body, "place")),
     phone |-> StrField(Field(body, "phone")),
     photoUrl |-> StrField(Field(body, "photoUrl")),
     age |-> AgeField(Field(body, "age")),
     updatedAt |-> IsoDate(now)]

\* PUT /api/admin/profile
AdminPutProfile(header, body) ==
    LET op == "PUT /api/admin/profile"
        payload == ProfilePayload(body)
    IN
    /\ IF ~authMiddleware(header).ok
       THEN /\ Rejected(op, header, body)
            /\ UNCHANGED <<profile, everPut>>
       ELSE IF payload.name = <<>>
       THEN /\ last' = Step(op, header, body, 400,
                            [error |-> "name is required"], "none")
            /\ UNCHANGED <<profile, everPut>>
       ELSE /\ profile' = SetMerge(profile, payload)
            /\ everPut' = TRUE
            /\ last' = Step(op, header, body, 200, OkBody, "write")
    /\ UNCHANGED <<env, now, issued, schedule, inquiries, reqs>>

\* GET /api/admin/schedule
AdminGetSchedule(header) ==
    /\ IF ~authMiddleware(header).ok
       THEN Rejected("GET /api/admin/schedule", header, NoReq)
       ELSE last' = Step("GET /api/admin/schedule", header, NoReq, 200,
                         ScheduleOrEmpty, "read")
    /\ UNCHANGED <<env, now, issued, profile, schedule, inquiries, reqs, everPut>>

\* Lines 228-232, the map callback; x.day of null or undefined throws
CleanItem(x) ==
    [day |-> StrField(Field(x.v, "day")),
     time |-> StrField(Field(x.v, "time")),
     location |-> StrField(Field(x.v, "location"))]

\* The filter with || for &&
KeepItemEither(x) == x.day # <<>> \/ x.time # <<>>

\* Line 233, the filter callback
KeepItem(x) == x.day # <<>> /\ x.time # <<>>

\* Lines 226-233
CleanItems(items) ==
    LET list == IF items.t = "array" THEN items.v ELSE <<>>
        mapped == [i \in 1..Len(list) |-> CleanItem(list[i])]
    IN SelectSeq(mapped, KeepItem)

\* The map callback throws a TypeError on an element that is null
ItemsThrow(items) ==
    items.t = "array" /\ \E i \in 1..Len(items.v) : items.v[i].t \in {"null", "undefined"}

\* PUT /api/admin/schedule
AdminPutSchedule(header, body) ==
    LET op == "PUT /api/admin/schedule"
        items == Field(body, "items")
    IN
    /\ IF ~authMiddleware(header).ok
       THEN /\ Rejected(op, header, body)
            /\ UNCHANGED schedule
       ELSE IF ItemsThrow(items)
       THEN /\ last' = Step(op, header, body, 0, NoData, "none")
            /\ UNCHANGED schedule
       ELSE /\ schedule' = SetMerge(schedule,
                                    [items |-> CleanItems(items),
                                     updatedAt |-> IsoDate(now)])
            /\ last' = Step(op, header, body, 200, OkBody, "write")
    /\ UNCHANGED <<env, now, issued, profile, inquiries, reqs, everPut>>

\* The limit with Math.max for Math.min
QueryLimitMax(q) ==
    LET n == ToNumber(IF Truthy(q) THEN q ELSE Num(DefaultLimit)) IN
    IF n.t = "nan" THEN NaN
    ELSE IF n.v > LimitCap THEN n ELSE Num(LimitCap)

\* Line 240: Math.min(Number(req.query.limit || 25), 100)
QueryLimit(q) ==
    LET n == ToNumber(IF Truthy(q) THEN q ELSE Num(DefaultLimit)) IN
    IF n.t = "nan" THEN NaN
    ELSE IF n.v < LimitCap THEN n ELSE Num(LimitCap)

\* Line 242
Annotate(docs) ==
    [i \in 1..Len(docs) |-> [f \in {"id"} \cup DOMAIN docs[i].data |->
                                IF f \in DOMAIN docs[i].data THEN docs[i].data[f]
                                ELSE docs[i].id]]

\* GET /api/admin/inquiries.  Firestore refuses a limit that is not an
\* integer or is negative: the handler rejects and no response is sent
AdminListInquiries(header, q) ==
    LET op == "GET /api/admin/inquiries"
        limit == QueryLimit(q)
        req == [limit |-> q]
    IN
    /\ IF ~authMiddleware(header).ok
       THEN Rejected(op, header, req)
       ELSE IF limit.t = "nan" \/ limit.v < 0
       THEN last' = Step(op, header, req, 0, NoData, "none")
       ELSE last' = Step(op, header, req, 200,
                         [items |-> Annotate(OrderByCreatedAtDescLimit(inquiries, limit.v))],
                         "read")
    /\ UNCHANGED <<env, now, issued, profile, schedule, inquiries, reqs, everPut>>

----------------------------------------------------------------------------
(* The clock *)

Tick(bound) ==
    /\ now < bound
    /\ now' = now + 1
    /\ last' = Step("tick", NoHeader, NoReq, 0, NoData, "none")
    /\ UNCHANGED <<env, issued, profile, schedule, inquiries, reqs, everPut>>

----------------------------------------------------------------------------
(* The requests explored *)

LoginBodies ==
    {[username |-> u, password |-> w] :
        u \in {Str(<<"a", "d">>), Str(<<" ", "a", "d", " ">>), Str(<<"A", "d">>),
               Str(<<"z">>), Null},
        w \in {Str(<<"p", "w">>), Str(<<"p", "w", " ">>), Str(<<"x">>), Str(<<>>)}}
        \cup {EmptyObject}

GoodLogin == [username |-> Str(<<"a", "d">>), password |-> Str(<<"p", "w">>)]

ProfileBodies ==
    { [name |-> Str(<<" ", "n", " ">>), bio |-> Str(<<"b">>), place |-> Str(<<"c">>),
       phone |-> Str(<<"1">>), photoUrl |-> Str(<<"u">>), age |-> Num(30)],
      [name |-> Str(<<"m">>)],
      [name |-> Str(<<"m">>), bio |-> Str(<<"b", " ">>), age |-> Str(<<"4", "1">>)],
      [name |-> Str(<<"m">>), age |-> Null],
      [name |-> Str(<<"m">>), age |-> Str(<<>>), phone |-> Str(<<"2">>)],
      [name |-> Str(<<" ">>), bio |-> Str(<<"b">>)],
      [bio |-> Str(<<"b">>)],
      EmptyObject }

Mon == Obj([day |-> Str(<<"M", "o", "n">>), time |-> Str(<<"5", "p", "m">>),
            location |-> Str(<<"G", "y", "m">>)])
NoDay == Obj([day |-> Str(<<>>), time |-> Str(<<"6", "p", "m">>),
              location |-> Str(<<"X">>)])
Padded == Obj([day |-> Str(<<" ", "T", "u", "e">>), time |-> Str(<<"7", " ">>)])
BlankTime == Obj([day |-> Str(<<"W", "e", "d">>), time |-> Str(<<" ">>),
                  location |-> Str(<<" ", "Y">>)])

ItemPool == {Mon, NoDay, Padded, BlankTime, Null}

ItemLists == UNION {[1..n -> ItemPool] : n \in 0..MaxItems}

ScheduleBodies ==
    {[items |-> Arr(l)] : l \in ItemLists}
        \cup {[items |-> Str(<<"M", "o", "n">>)], [items |-> Mon], EmptyObject}

InquiryBodies ==
    { [name |-> Str(<<" ", "a", " ">>), email |-> Str(<<"e">>), message |-> Str(<<"m">>)],
      [name |-> Str(<<"a">>), email |-> Str(<<"e">>), phone |-> Str(<<" ">>),
       message |-> Str(<<" ", "m">>)],
      [name |-> Str(<<"a">>), email |-> Str(<<"e">>), message |-> Str(<<" ">>)],
      [name |-> Str(<<"a">>), email |-> Str(<<"e">>), message |-> Str(<<>>)],
      [name |-> Str(<<" ", " ">>), email |-> Str(<<"e">>), message |-> Str(<<"m">>)],
      [name |-> Str(<<"a">>), email |-> Null, message |-> Str(<<"m">>)],
      [name |-> Str(<<"a">>), message |-> Str(<<"m">>)],
      EmptyObject }

Limits ==
    {Undef, Str(<<>>), Str(<<"0">>), Str(<<"1">>), Str(<<"2">>), Str(<<"2", "5">>),
     Str(<<"1", "0", "0">>), Str(<<"1", "0", "1">>), Str(<<"5", "0", "0">>),
     Str(<<"-", "1">>), Str(<<"a">>)}

----------------------------------------------------------------------------
(* Specifications *)

Slots == 1..MaxSlots

Start == Step("start", NoHeader, NoReq, 0, NoData, "none")

InitWith(envs, stores) ==
    /\ env \in envs
    /\ now = 0
    /\ issued = {}
    /\ profile = Absent
    /\ schedule = Absent
    /\ inquiries \in stores
    /\ reqs = [r \in Slots |-> Idle]
    /\ everPut = FALSE
    /\ last = Start

Configured ==
    [JWT_SECRET |-> "s3cret", ADMIN_USERNAME |-> <<"a", "d", " ">>,
     ADMIN_PASSWORD |-> <<"p", "w">>, SMTP |-> "set", TELEGRAM |-> "set"]

\* The headers of an honest client: none, or a token it was given
OwnHeaders == {NoHeader} \cup {Bearer(t) : t \in issued}

BadLogin == [username |-> Str(<<"a", "d">>), password |-> Str(<<"x">>)]

ValidInquiry ==
    [name |-> Str(<<" ", "a", " ">>), email |-> Str(<<"e">>), message |-> Str(<<"m">>)]

BlankInquiry ==
    [name |-> Str(<<"a">>), email |-> Str(<<"e">>), message |-> Str(<<" ">>)]

\* The whole application at one instant: every route, the profile route
\* with every body
Init == InitWith({Configured}, {{}})

Next ==
    \/ PublicGetProfile
    \/ PublicGetSchedule
    \/ \E r \in Slots, body \in {ValidInquiry, BlankInquiry} : InquiryReceive(r, body)
    \/ \E r \in Slots : InquiryAdd(r)
    \/ \E r \in Slots, o \in EmailOutcomes : EmailSettle(r, o)
    \/ \E r \in Slots, o \in TelegramOutcomes : TelegramSettle(r, o)
    \/ \E body \in {GoodLogin, BadLogin} : Login(body)
    \/ \E h \in OwnHeaders : AdminGetProfile(h)
    \/ \E h \in OwnHeaders \cup {Bearer(Forged)}, body \in ProfileBodies :
          AdminPutProfile(h, body)
    \/ \E h \in OwnHeaders : AdminGetSchedule(h)
    \/ \E h \in OwnHeaders : AdminPutSchedule(h, [items |-> Arr(<<Mon, NoDay>>)])
    \/ \E h \in OwnHeaders : AdminListInquiries(h, Undef)

Spec == Init /\ [][Next]_vars

\* Login and the five admin routes, under every configuration of the
\* credentials and every header, over the lifetime of a token
InitAuth ==
    InitWith({e \in EnvChoices : e.SMTP = "" /\ e.TELEGRAM = ""}, {{}})

NextAuth ==
    \/ \E body \in LoginBodies : Login(body)
    \/ \E h \in Headers : AdminGetProfile(h)
    \/ \E h \in Headers, body \in {[name |-> Str(<<"m">>)], EmptyObject} :
          AdminPutProfile(h, body)
    \/ \E h \in Headers : AdminGetSchedule(h)
    \/ \E h \in Headers : AdminPutSchedule(h, [items |-> Arr(<<Mon>>)])
    \/ \E h \in Headers : AdminListInquiries(h, Undef)
    \/ Tick(MaxTime)

SpecAuth == InitAuth /\ [][NextAuth]_vars

\* Inquiry submissions interleaving, under every configuration of the two
\* notification transports
InitInquiry ==
    InitWith({e \in EnvChoices : e.JWT_SECRET # "" /\ e.ADMIN_USERNAME # <<>>
                                    /\ e.ADMIN_PASSWORD # <<>>}, {{}})

NextInquiry ==
    \/ \E r \in Slots, body \in InquiryBodies : InquiryReceive(r, body)
    \/ \E r \in Slots : InquiryAdd(r)
    \/ \E r \in Slots, o \in EmailOutcomes : EmailSettle(r, o)
    \/ \E r \in Slots, o \in TelegramOutcomes : TelegramSettle(r, o)

SpecInquiry == InitInquiry /\ [][NextInquiry]_vars

\* Inquiry submissions interleaving over time, and the admin's listing of
\* them; no notification transport is configured
InitOrder == InitWith({[Configured EXCEPT !.SMTP = "", !.TELEGRAM = ""]}, {{}})

NextOrder ==
    \/ \E r \in Slots, body \in {ValidInquiry, BlankInquiry} : InquiryReceive(r, body)
    \/ \E r \in Slots : InquiryAdd(r)
    \/ Login(GoodLogin)
    \/ \E h \in OwnHeaders, q \in {Undef, Str(<<"1">>), Str(<<"2">>)} :
          AdminListInquiries(h, q)
    \/ Tick(MaxInquiryTime)

SpecOrder == InitOrder /\ [][NextOrder]_vars

\* The schedule routes with every item list
NextSchedule ==
    \/ PublicGetSchedule
    \/ Login(GoodLogin)
    \/ \E h \in OwnHeaders : AdminGetSchedule(h)
    \/ \E h \in OwnHeaders, body \in ScheduleBodies : AdminPutSchedule(h, body)

SpecSchedule == Init /\ [][NextSchedule]_vars

\* The listing over a store that already holds inquiries: document i was
\* created at a time that repeats and is unrelated to its id
Stored(n) ==
    {[id |-> i,
      data |-> [name |-> <<"a">>, email |-> <<"e">>, phone |-> <<>>,
                message |-> <<"m">>, createdAt |-> IsoDate((i * 37) % 50)]] :
        i \in 1..n}

\* The store sizes around the default limit, the cap and their multiples
StoredSizes == {n \in 0..MaxStored : n % DefaultLimit \in {0, 1, 2, DefaultLimit - 1}}

InitList == InitWith({Configured}, {Stored(n) : n \in StoredSizes})

NextList ==
    \/ Login(GoodLogin)
    \/ \E h \in OwnHeaders, q \in Limits : AdminListInquiries(h, q)

SpecList == InitList /\ [][NextList]_vars

----------------------------------------------------------------------------
(* Properties *)

AdminRoutes ==
    {"GET /api/admin/profile", "PUT /api/admin/profile", "GET /api/admin/schedule",
     "PUT /api/admin/schedule", "GET /api/admin/inquiries"}

\* The header carries a token that a login returned, unaltered, less than
\* 7 days old, with role "admin"
IssuedAndFresh(header) ==
    /\ header.scheme = "Bearer "
    /\ header.rest \in issued
    /\ now < header.rest.payload.iat + 7
    /\ header.rest.payload.role = "admin"

CarriesNoToken(header) == header.scheme # "Bearer " \/ header.rest = EmptyToken

C1_Gate ==
    last.op \in AdminRoutes =>
        /\ last.store # "none" => IssuedAndFresh(last.auth)
        /\ IssuedAndFresh(last.auth) => last.status # 401
        /\ ~IssuedAndFresh(last.auth) =>
              /\ last.status = 401
              /\ last.body = [error |-> IF CarriesNoToken(last.auth)
                                        THEN "Missing token" ELSE "Invalid token"]

C1_Frame ==
    (last'.op \in AdminRoutes /\ last'.status = 401)
        => UNCHANGED <<profile, schedule, inquiries>>

\* C1: an admin route touches the document store only for a token that a
\* login issued, unaltered, less than 7 days old and with role "admin"; every
\* such token passes on all five routes; every other request gets 401
\* ("Missing token" without a token, "Invalid token" otherwise) and leaves
\* profile, schedule and inquiries as they were.
C1_AdminGate == []C1_Gate /\ [][C1_Frame]_vars

\* C1 witness: a token that a login issued is refused on the profile write
\* once its 7 days are over
C1_Witness ==
    /\ last.op = "PUT /api/admin/profile"
    /\ last.auth.scheme = "Bearer "
    /\ last.auth.rest \in issued
    /\ now >= last.auth.rest.payload.iat + 7
    /\ last.status = 401
    /\ last.body = [error |-> "Invalid token"]

IdentityMatches(u) == u.t = "string" /\ Trim(u.v) = Trim(env.ADMIN_USERNAME)

PasswordMatches(w) == w.t = "string" /\ w.v = env.ADMIN_PASSWORD

\* C2: with the admin identity and password configured, a login returns a
\* token only for the configured identity (compared trimmed) with the
\* configured password; every other attempt gets 401 with one and the same
\* body, whichever of the two fields is wrong.
C2_Login ==
    (/\ last.op = "POST /api/auth/login"
     /\ Trim(env.ADMIN_USERNAME) # <<>>
     /\ env.ADMIN_PASSWORD # <<>>) =>
        LET good == IdentityMatches(last.req.username)
                        /\ PasswordMatches(last.req.password)
        IN /\ "token" \in DOMAIN last.body => good
           /\ good => last.status # 401
           /\ ~good => /\ last.status = 401
                       /\ last.body = [error |-> "Invalid credentials"]

\* C2 witness: the configured identity with a wrong password is answered 401
C2_Witness ==
    /\ last.op = "POST /api/auth/login"
    /\ IdentityMatches(last.req.username)
    /\ ~PasswordMatches(last.req.password)
    /\ last.status = 401

----------------------------------------------------------------------------

Blank(x) == x.t # "string" \/ Trim(x.v) = <<>>

BlankBody(body) ==
    \/ Blank(Field(body, "name"))
    \/ Blank(Field(body, "email"))
    \/ Blank(Field(body, "message"))

Filled(data) ==
    /\ Trim(data.name) # <<>>
    /\ Trim(data.email) # <<>>
    /\ Trim(data.message) # <<>>

C4_State ==
    /\ \A d \in inquiries : Filled(d.data)
    /\ \A r \in DOMAIN reqs : reqs[r].pc # "idle" => Filled(reqs[r].data)
    /\ (last.op = "POST /api/public/inquiry" /\ last.status = 400)
          => last.body = [error |-> "name, email, message are required"]

C4_Step ==
    \A r \in DOMAIN reqs, body \in InquiryBodies :
        (InquiryReceive(r, body) /\ BlankBody(body)) =>
            /\ last'.status = 400
            /\ inquiries' = inquiries
            /\ reqs' = reqs

\* C4: an inquiry whose name, email or message is blank after trimming is
\* answered 400, creates no record and starts no notification; every inquiry
\* in the store has a non-blank name, email and message.
C4_BlankRejected == []C4_State /\ [][C4_Step]_vars

\* C4 witness: a whitespace-only message is answered 400 while the store
\* already holds an inquiry
C4_Witness ==
    /\ last.op = "POST /api/public/inquiry"
    /\ last.status = 400
    /\ Field(last.req.body, "message") = Str(<<" ">>)
    /\ inquiries # {}

Settled == {"unconfigured", "sent", "failed"}

\* C5: whatever the two dispatches do (sent, failed, unconfigured), a valid
\* submission is answered 200 {ok: true}; the inquiry is in the store before
\* either dispatch is attempted and still there at the response; no dispatch
\* is attempted twice.
C5_NotificationsSwallowed ==
    /\ (last.op = "POST /api/public/inquiry" /\ last.status # 400) =>
          /\ last.status = 200
          /\ last.body = [ok |-> TRUE]
          /\ last.req.email \in Settled
          /\ last.req.telegram \in Settled
          /\ [id |-> last.req.id, data |-> last.req.data] \in inquiries
    /\ \A r \in DOMAIN reqs :
          /\ (reqs[r].emailCalls > 0 \/ reqs[r].telegramCalls > 0)
                => [id |-> reqs[r].id, data |-> reqs[r].data] \in inquiries
          /\ reqs[r].emailCalls <= 1
          /\ reqs[r].telegramCalls <= 1

\* C5 witness: both dispatches failed and the answer is 200 {ok: true}
C5_Witness ==
    /\ last.op = "POST /api/public/inquiry"
    /\ last.status = 200
    /\ last.req.email = "failed"
    /\ last.req.telegram = "failed"
    /\ [id |-> last.req.id, data |-> last.req.data] \in inquiries

\* C10 as stated: neither dispatch waits for the other, so while the email
\* dispatch is in flight the chat dispatch has been started, and the reverse
C10_NeitherAwaitsTheOther ==
    \A r \in DOMAIN reqs :
        /\ reqs[r].email = "inflight" => reqs[r].telegram # "notstarted"
        /\ reqs[r].telegram = "inflight" => reqs[r].email # "notstarted"

\* C10 amended: the dispatches run one after the other, the chat dispatch
\* being started only once the email dispatch has settled; each is attempted
\* once whatever became of the other, and the answer is 200 {ok: true}.
C10_InSequence ==
    /\ \A r \in DOMAIN reqs :
          reqs[r].telegram # "notstarted" => reqs[r].email \in Settled
    /\ (last.op = "POST /api/public/inquiry" /\ last.status # 400) =>
          /\ last.req.emailCalls = 1
          /\ last.req.telegramCalls = 1
          /\ last.status = 200
          /\ last.body = [ok |-> TRUE]

\* C10 witness: the chat dispatch is in flight after the email dispatch failed
C10_Witness ==
    \E r \in DOMAIN reqs :
        reqs[r].email = "failed" /\ reqs[r].telegram = "inflight"

----------------------------------------------------------------------------

ListItems == last.body.items

Listed == last.op = "GET /api/admin/inquiries" /\ last.status = 200

\* The inquiries whose submission has been answered
Answered ==
    {d \in inquiries : \A r \in DOMAIN reqs : reqs[r].pc = "idle" \/ reqs[r].id # d.id}

\* C3 as stated: a list call made after the response of a submission returns
\* that inquiry, before every inquiry with an earlier creation time
C3_ListedFirst ==
    Listed =>
        \A x \in Answered :
            \E i \in 1..Len(ListItems) :
                /\ ListItems[i].id = x.id
                /\ \A j \in 1..Len(ListItems) :
                      ListItems[j].createdAt.v < x.data.createdAt.v => i < j

\* The limit a list request asks for, 25 when it names none
RequestedLimit(q) ==
    IF q.t = "string" /\ q.v # <<>> THEN DigitsToNat(q.v) ELSE 25

C3_List ==
    Listed =>
        /\ \A i, j \in 1..Len(ListItems) :
              i < j => ListItems[i].createdAt.v >= ListItems[j].createdAt.v
        /\ \A x \in inquiries :
              Cardinality({y \in inquiries \ {x} :
                              y.data.createdAt.v >= x.data.createdAt.v})
                  < RequestedLimit(last.req.limit)
              => \E i \in 1..Len(ListItems) : ListItems[i].id = x.id

Stores(r) == reqs[r].pc = "adding" /\ reqs'[r].pc # "adding"

C3_Step ==
    /\ \A r \in DOMAIN reqs :
          Stores(r) =>
              /\ Cardinality(inquiries') = Cardinality(inquiries) + 1
              /\ \E d \in inquiries' :
                    /\ d.data = reqs[r].data
                    /\ inquiries' = inquiries \cup {d}
    /\ (\A r \in DOMAIN reqs : ~Stores(r)) => inquiries' = inquiries

\* C3 amended: each valid submission adds exactly one inquiry to the store,
\* whatever other submissions are in flight; a list call returns the
\* inquiries by creation time descending, so an inquiry it returns stands
\* before every returned inquiry with a strictly earlier creation time, and
\* it returns an inquiry whenever fewer inquiries than the limit have an
\* equal or later creation time.
C3_AppendAndOrder == []C3_List /\ [][C3_Step]_vars

\* C3 witness: two inquiries submitted at different times, both answered,
\* are listed, the later one first
C3_Witness ==
    /\ Listed
    /\ Len(ListItems) = 2
    /\ ListItems[1].createdAt.v > ListItems[2].createdAt.v
    /\ Answered = inquiries

----------------------------------------------------------------------------

OptionalProfileFields == {"bio", "place", "phone", "photoUrl", "age"}

\* C6 as stated: a successful profile write keeps the stored value of every
\* field among bio, place, phone, photoUrl and age that its body does not
\* mention; a write with a blank name gets 400 and changes nothing
C6_MergeWrite ==
    [][ /\ (/\ last'.op = "PUT /api/admin/profile"
            /\ last'.status = 200
            /\ profile.exists)
           => \A f \in OptionalProfileFields \ DOMAIN last'.req :
                 profile'.data[f] = profile.data[f]
        /\ (last'.op = "PUT /api/admin/profile" /\ last'.status = 400)
           => profile' = profile ]_vars

Text(x) == IF x.t = "string" THEN Trim(x.v) ELSE <<>>

RECURSIVE Retained(_)
Retained(list) ==
    IF list = <<>> THEN <<>>
    ELSE LET x == Head(list).v
             item == [day |-> Text(Field(x, "day")), time |-> Text(Field(x, "time")),
                      location |-> Text(Field(x, "location"))]
         IN (IF item.day # <<>> /\ item.time # <<>> THEN <<item>> ELSE <<>>)
                \o Retained(Tail(list))

\* C7: after a successful schedule write the stored items are the input
\* items with day, time and location trimmed, those with a non-blank day and
\* time kept in their order and the others dropped; nothing of the previous
\* items survives, and an input that is no list stores the empty list.
C7_ScheduleReplaced ==
    (last.op = "PUT /api/admin/schedule" /\ last.status = 200) =>
        /\ schedule.exists
        /\ schedule.data.items =
              IF Field(last.req, "items").t = "array"
              THEN Retained(Field(last.req, "items").v)
              ELSE <<>>

\* C7 witness: the list [Mon 5pm Gym, (no day) 6pm X] is written and only
\* its first item is stored
C7_Witness ==
    /\ last.op = "PUT /api/admin/schedule"
    /\ last.status = 200
    /\ last.req = [items |-> Arr(<<Mon, NoDay>>)]
    /\ schedule.data.items =
          <<[day |-> <<"M", "o", "n">>, time |-> <<"5", "p", "m">>,
             location |-> <<"G", "y", "m">>]>>

NoLimitNamed(q) == q = Undef \/ q = Str(<<>>)

\* The inquiry a listed item stands for
Source(item) ==
    [id |-> item.id,
     data |-> [f \in DOMAIN item \ {"id"} |-> item[f]]]

\* C8: a listing never holds more than 100 items, nor more than 25 when no
\* limit is named; for a limit L from 1 to 100 it holds min(L, stored)
\* items, which are the most recently created inquiries, each with its id.
C8_LimitClamped ==
    Listed =>
        LET q == last.req.limit
            n == Len(ListItems)
            shown == {Source(ListItems[i]) : i \in 1..n}
        IN /\ n <= 100
           /\ NoLimitNamed(q) => n <= 25
           /\ (/\ ~NoLimitNamed(q)
               /\ AllDigits(q.v)
               /\ DigitsToNat(q.v) \in 1..100) =>
                 /\ n = IF DigitsToNat(q.v) < Cardinality(inquiries)
                        THEN DigitsToNat(q.v) ELSE Cardinality(inquiries)
                 /\ shown \subseteq inquiries
                 /\ Cardinality(shown) = n
                 /\ \A x \in shown, y \in inquiries \ shown :
                       y.data.createdAt.v <= x.data.createdAt.v
                 /\ \A i, j \in 1..n :
                       i < j => ListItems[i].createdAt.v >= ListItems[j].createdAt.v

\* C8 witness: limit=500 over a store of more than 100 inquiries returns 100
C8_Witness ==
    /\ Listed
    /\ last.req.limit = Str(<<"5", "0", "0">>)
    /\ Cardinality(inquiries) > 100
    /\ Len(ListItems) = 100

DefaultRecord ==
    [name |-> DefaultName, bio |-> DefaultBio, place |-> <<"-">>,
     phone |-> <<"-">>, age |-> [t |-> "null"], photoUrl |-> <<>>]

\* C9: the public profile is the fixed default record exactly as long as no
\* profile write has succeeded; from the first successful write on it is the
\* stored document, never the default, an empty object or an error.
C9_DefaultUntilWritten ==
    /\ last.op = "GET /api/public/profile" =>
          /\ last.status = 200
          /\ last.body = DefaultRecord <=> ~everPut
          /\ everPut => /\ profile.exists
                        /\ last.body = profile.data
                        /\ last.body # EmptyObject
                        /\ last.body.name # <<>>
    /\ everPut <=> profile.exists

\* C9 witness: the public profile is read after a successful profile write,
\* a schedule write and an inquiry
C9_Witness ==
    /\ last.op = "GET /api/public/profile"
    /\ everPut
    /\ last.body = profile.data
    /\ schedule.exists
    /\ inquiries # {}

====
